---- MODULE Spec2Model ----
(***************************************************************************)
(* State-machine model of lib/cache/cache_fs.js: the filesystem cache      *)
(* backend CacheFS (store, commit, cleanup) and its put transaction        *)
(* PutTransactionFS.                                                       *)
(*                                                                         *)
(* The filesystem is modelled with names (path -> inode) and inodes        *)
(* (content, access time), so that rename, unlink and open file            *)
(* descriptors behave as on a POSIX filesystem.                            *)
(***************************************************************************)
EXTENDS Integers, Sequences, FiniteSets, TLC

\* ------------------------------------------------------------------ bounds
\* number of temporary files (uuid names) the run may allocate
MaxUuid == 2
\* largest declared size a caller passes
MaxSize == 1
\* most bytes a caller writes to one stream: one more than it may declare
MaxBytes == MaxSize + 1
\* finalize()/endPutTransaction() calls per transaction
MaxCalls == 2
\* the clock reading of moment() (access times range over 0..Now)
Now == 2
\* largest size of a file present in the store before the run
MaxFileSize == 1
\* largest maxCacheSize option
MaxCacheOpt == 2
\* cleanup() calls per run
MaxPasses == 2

Txns == {1, 2}
Kinds == {"a", "i", "r"}
TypeInputs == Kinds \cup {"x"}

\* ------------------------------------------------------------- JS values
\* A JavaScript value passed as `size`: typeof, NaN-ness and numeric value.
Num(n) == [t |-> "number", nan |-> FALSE, v |-> n]
NaN == [t |-> "number", nan |-> TRUE, v |-> 0]
Str == [t |-> "string", nan |-> FALSE, v |-> 0]
SizeInputs == {Num(n) : n \in -1..MaxSize} \cup {NaN, Str}
\* the sizes of well-formed calls
ValidSizes == {Num(n) : n \in 1..MaxSize}

typeof(x) == x.t
\* x <= 0 in JavaScript (false when x is NaN)
LeqZero(x) == ~x.nan /\ x.v <= 0
\* n === x for an integer n
StrictEq(n, x) == x.t = "number" /\ ~x.nan /\ x.v = n

\* ----------------------------------------------------------------- paths
\* the one (guid, hash) key the transactions of a run are opened for
Guid == <<171>>
Hash == <<1>>
Dash == 16

RECURSIVE HexString(_)
HexString(bytes) ==
    IF bytes = <<>> THEN <<>>
    ELSE <<Head(bytes) \div 16, Head(bytes) % 16>> \o HexString(Tail(bytes))

GUIDBufferToString(guid) == HexString(guid)

Ext(type) == CASE type = "i" -> "info" [] type = "a" -> "bin" [] type = "r" -> "resource"

_calcFilename(type, guid, hash) ==
    [stem |-> GUIDBufferToString(guid) \o <<Dash>> \o HexString(hash), ext |-> Ext(type)]

_calcFilepath(type, guid, hash) ==
    LET fileName == _calcFilename(type, guid, hash)
    IN  [dir |-> SubSeq(fileName.stem, 1, 2), name |-> fileName]

\* path.join(this._cachePath, uuid()): a file directly under the cache root
TempPath(u) == [dir |-> <<>>, name |-> [stem |-> <<u>>, ext |-> ""]]

Uuids == 1..MaxUuid
TempPaths == {TempPath(u) : u \in Uuids}
CanonPaths == {_calcFilepath(k, Guid, Hash) : k \in Kinds}
Paths == TempPaths \cup CanonPaths
ShardDir == SubSeq(_calcFilename("a", Guid, Hash).stem, 1, 2)

\* inodes: the one created for temporary file u is u; a file that is in the
\* store before the run has the negative inode of its kind
KindIdx(k) == CASE k = "a" -> 1 [] k = "i" -> 2 [] k = "r" -> 3
PreIno(k) == 0 - KindIdx(k)
Inos == {PreIno(k) : k \in Kinds} \cup Uuids
NoIno == 0

NoStream == [file |-> 0, type |-> "", size |-> Num(0), bytesWritten |-> 0,
             closed |-> FALSE, owner |-> 0]

VARIABLES
    names,        \* path -> inode (NoIno: no such file)
    inodes,       \* inode -> [content, atime]
    dirs,         \* shard directories that exist under the cache root
    created,      \* txn -> createPutTransaction has returned it
    _streams,     \* txn -> kind -> uuid of the registered stream (0: none)
    streamKeys,   \* txn -> kinds in insertion order (key order of _streams)
    sobj,         \* uuid -> the stream record {file, type, size, stream}
    _files,       \* txn -> verified files [file, type, size]
    pc,           \* txn -> "idle" | "closing" (inside _closeAllStreams)
    who,          \* txn -> which call is running: "finalize" | "commit"
    snap,         \* txn -> Object.values(this._streams) taken by the call
    idx,          \* txn -> index in snap of the stream being awaited
    result,       \* txn -> outcome of the last finalize/commit call
    ncalls,       \* txn -> finalize/commit calls made
    nextUuid,     \* next unused temporary name
    pending,      \* fs.move operations started and not yet completed
    moveLog,      \* completed fs.move operations, in completion order
    gwsResult,    \* outcome of the last getWriteStream call
    obs,          \* what the last reader call returned
    rd,           \* inode held open by a read stream (NoIno: none)
    options,      \* cleanupOptions [expireTimeSpan, maxCacheSize]
    engine,       \* how Array.prototype.sort treats the boolean comparator
    cl,           \* the running cleanup() call
    events,       \* events emitted by the running/last cleanup() call
    passes,       \* cleanup() calls started
    passLog       \* per finished pass: dryRun, outcome and reported totals

fsVars == <<names, inodes, dirs>>
txnVars == <<created, _streams, streamKeys, sobj, _files, pc, who, snap, idx,
             result, ncalls, nextUuid, pending, moveLog, gwsResult>>
readVars == <<obs, rd>>
cleanVars == <<options, engine, cl, events, passes, passLog>>
vars == <<names, inodes, dirs, created, _streams, streamKeys, sobj, _files, pc,
          who, snap, idx, result, ncalls, nextUuid, pending, moveLog, gwsResult,
          obs, rd, options, engine, cl, events, passes, passLog>>

NoObs == [op |-> "none", found |-> FALSE, ino |-> NoIno, size |-> 0, data |-> <<>>]
NoTotals == [cacheCount |-> 0 - 1, cacheSize |-> 0, deleteCount |-> 0, deleteSize |-> 0]
\* no cleanup() call is running. names0, search and deleted are kept for the
\* record of the pass: the names at its start, the totals of its
\* search-finished event and the paths it has unlinked
IdleCl == [phase |-> "idle", dryRun |-> TRUE, min |-> 0, pos |-> 0,
           allItems |-> <<>>, deleteItems |-> <<>>, cacheSize |-> 0,
           deleteSize |-> 0, di |-> 0, names0 |-> <<>>, search |-> NoTotals,
           deleted |-> {}]

\* ------------------------------------------------------------ transaction

\* mutant of SizeRejected: the test is size < 0, so zero passes
SizeRejectedNegative(size) == typeof(size) # "number" \/ (~size.nan /\ size.v < 0)

\* line 255: the size is rejected
SizeRejected(size) == typeof(size) # "number" \/ LeqZero(size)

\* line 259: the type is rejected
TypeRejected(type) == type # "a" /\ type # "i" /\ type # "r"

\* this._streams[type] = {...}: key order of an object keeps first insertion
KeysAfterSet(keys, type) ==
    IF \E i \in 1..Len(keys) : keys[i] = type THEN keys ELSE Append(keys, type)

\* PutTransactionFS.getWriteStream(type, size)
GetWriteStream(t, type, size) ==
    /\ created[t]
    /\ IF SizeRejected(size)
       THEN /\ gwsResult' = "Invalid size for write stream"
            /\ UNCHANGED <<names, inodes, sobj, _streams, streamKeys, nextUuid>>
       ELSE IF TypeRejected(type)
       THEN /\ gwsResult' = "Unrecognized type"
            /\ UNCHANGED <<names, inodes, sobj, _streams, streamKeys, nextUuid>>
       ELSE /\ nextUuid <= MaxUuid
            /\ LET u == nextUuid IN
                /\ names' = [names EXCEPT ![TempPath(u)] = u]
                /\ inodes' = [inodes EXCEPT ![u] = [content |-> <<>>, atime |-> Now]]
                /\ sobj' = [sobj EXCEPT ![u] = [file |-> u, type |-> type, size |-> size,
                                                bytesWritten |-> 0, closed |-> FALSE,
                                                owner |-> t]]
                /\ _streams' = [_streams EXCEPT ![t][type] = u]
                /\ streamKeys' = [streamKeys EXCEPT ![t] = KeysAfterSet(@, type)]
                /\ nextUuid' = u + 1
            /\ gwsResult' = "ok"
    /\ UNCHANGED <<dirs, created, _files, pc, who, snap, idx, result, ncalls,
                   pending, moveLog>>
    /\ UNCHANGED readVars /\ UNCHANGED cleanVars

\* CacheFS.createPutTransaction(guid, hash)
CreatePutTransaction(t) ==
    /\ ~created[t]
    /\ created' = [created EXCEPT ![t] = TRUE]
    /\ UNCHANGED <<_streams, streamKeys, sobj, _files, pc, who, snap, idx, result,
                   ncalls, nextUuid, pending, moveLog, gwsResult>>
    /\ UNCHANGED fsVars /\ UNCHANGED readVars /\ UNCHANGED cleanVars

\* the caller writes one byte to the stream getWriteStream returned; the
\* descriptor stays valid when the name is unlinked or renamed
WriteByte(u, b) ==
    /\ sobj[u].file = u
    /\ ~sobj[u].closed
    /\ sobj[u].bytesWritten < MaxBytes
    /\ sobj' = [sobj EXCEPT ![u].bytesWritten = @ + 1]
    /\ inodes' = [inodes EXCEPT ![u].content = Append(@, b)]
    /\ UNCHANGED <<names, dirs, created, _streams, streamKeys, _files, pc, who, snap,
                   idx, result, ncalls, nextUuid, pending, moveLog, gwsResult>>
    /\ UNCHANGED readVars /\ UNCHANGED cleanVars

\* the caller ends the stream and it emits 'close'
CloseStream(u) ==
    /\ sobj[u].file = u
    /\ ~sobj[u].closed
    /\ sobj' = [sobj EXCEPT ![u].closed = TRUE]
    /\ UNCHANGED <<created, _streams, streamKeys, _files, pc, who, snap, idx, result,
                   ncalls, nextUuid, pending, moveLog, gwsResult>>
    /\ UNCHANGED fsVars /\ UNCHANGED readVars /\ UNCHANGED cleanVars

\* mutant of SizeMatches: the size is not verified
SizeMatchesAny(bytesWritten, size) == TRUE

\* line 207: stream.stream.bytesWritten === stream.size
SizeMatches(bytesWritten, size) == StrictEq(bytesWritten, size)

\* Object.values(this._streams)
StreamValues(streams, keys) == [i \in 1..Len(keys) |-> streams[keys[i]]]

\* mutant of closeLoop: a stream that is still open is checked at once, not
\* awaited
RECURSIVE closeLoopNoWait(_, _, _, _)
closeLoopNoWait(so, files, i, fl) ==
    IF i > Len(files) THEN [st |-> "done", i |-> i, files |-> fl]
    ELSE LET stream == so[files[i]] IN
         IF SizeMatches(stream.bytesWritten, stream.size)
         THEN closeLoopNoWait(so, files, i + 1,
                              Append(fl, [file |-> stream.file, type |-> stream.type,
                                          size |-> stream.size]))
         ELSE [st |-> "throw", i |-> i, files |-> fl]

\* mutant of closeLoop: a stream whose size does not match is left out of
\* files and the loop goes on, nothing is thrown
RECURSIVE closeLoopSkipMismatch(_, _, _, _)
closeLoopSkipMismatch(so, files, i, fl) ==
    IF i > Len(files) THEN [st |-> "done", i |-> i, files |-> fl]
    ELSE LET stream == so[files[i]] IN
         IF ~stream.closed THEN [st |-> "await", i |-> i, files |-> fl]
         ELSE closeLoopSkipMismatch(so, files, i + 1,
                  IF SizeMatches(stream.bytesWritten, stream.size)
                  THEN Append(fl, [file |-> stream.file, type |-> stream.type,
                                   size |-> stream.size])
                  ELSE fl)

\* The for loop of _closeAllStreams from index i on, as far as it runs without
\* waiting: closed streams are processed at once, the first open one is awaited,
\* the first mismatch throws (entries pushed before it stay in _files).
RECURSIVE closeLoop(_, _, _, _)
closeLoop(so, files, i, fl) ==
    IF i > Len(files) THEN [st |-> "done", i |-> i, files |-> fl]
    ELSE LET stream == so[files[i]] IN
         IF ~stream.closed THEN [st |-> "await", i |-> i, files |-> fl]
         ELSE IF SizeMatches(stream.bytesWritten, stream.size)
         THEN closeLoop(so, files, i + 1,
                        Append(fl, [file |-> stream.file, type |-> stream.type,
                                    size |-> stream.size]))
         ELSE [st |-> "throw", i |-> i, files |-> fl]

\* transaction.files.map(moveFile): one fs.move is started per verified file
StartMoves(t, fl) == [i \in 1..Len(fl) |-> [txn |-> t, file |-> fl[i].file, type |-> fl[i].type]]

\* what follows _closeAllStreams once the loop has stopped at r
AfterClose(t, caller, files, r) ==
    /\ _files' = [_files EXCEPT ![t] = r.files]
    /\ snap' = [snap EXCEPT ![t] = files]
    /\ idx' = [idx EXCEPT ![t] = r.i]
    /\ who' = [who EXCEPT ![t] = caller]
    /\ CASE r.st = "await" ->
                /\ pc' = [pc EXCEPT ![t] = "closing"]
                /\ UNCHANGED <<result, pending>>
         [] r.st = "throw" ->
                /\ pc' = [pc EXCEPT ![t] = "idle"]
                /\ result' = [result EXCEPT ![t] = "SizeMismatch"]
                /\ UNCHANGED pending
         [] r.st = "done" ->
                /\ pc' = [pc EXCEPT ![t] = "idle"]
                /\ IF caller = "commit"
                   THEN /\ pending' = pending \o StartMoves(t, r.files)
                        /\ result' = [result EXCEPT ![t] = "committed"]
                   ELSE /\ UNCHANGED pending
                        /\ result' = [result EXCEPT ![t] = "finalized"]

\* PutTransactionFS.finalize(), called by the caller (caller = "finalize") or by
\* endPutTransaction (caller = "commit"), up to its first wait
CallFinalize(t, caller) ==
    /\ pc[t] = "idle"
    /\ ncalls[t] < MaxCalls
    /\ ncalls' = [ncalls EXCEPT ![t] = @ + 1]
    /\ LET files == StreamValues(_streams[t], streamKeys[t])
       IN  AfterClose(t, caller, files, closeLoop(sobj, files, 1, _files[t]))
    /\ UNCHANGED <<created, _streams, streamKeys, sobj, nextUuid, moveLog, gwsResult>>
    /\ UNCHANGED fsVars /\ UNCHANGED readVars /\ UNCHANGED cleanVars

\* the caller calls transaction.finalize() itself
Finalize(t) ==
    /\ created[t]
    /\ CallFinalize(t, "finalize")

\* CacheFS.endPutTransaction(transaction): finalize, then a move is started for
\* every verified file and the call returns without waiting for the moves
EndPutTransaction(t) ==
    /\ created[t]
    /\ CallFinalize(t, "commit")

\* the 'close' handler of the awaited stream runs and the loop goes on
ResumeClose(t) ==
    /\ pc[t] = "closing"
    /\ sobj[snap[t][idx[t]]].closed
    /\ AfterClose(t, who[t], snap[t], closeLoop(sobj, snap[t], idx[t], _files[t]))
    /\ UNCHANGED <<created, _streams, streamKeys, sobj, ncalls, nextUuid, moveLog,
                   gwsResult>>
    /\ UNCHANGED fsVars /\ UNCHANGED readVars /\ UNCHANGED cleanVars

\* mutant of PendingAfter: a failed move drops the moves after it
PendingAfterAbort(pend, i, ok) == IF ok THEN [j \in 1..(Len(pend) - 1) |-> IF j < i THEN pend[j] ELSE pend[j + 1]] ELSE SubSeq(pend, 1, i - 1)

\* the moves still in flight after move i has completed with outcome ok
PendingAfter(pend, i, ok) == [j \in 1..(Len(pend) - 1) |-> IF j < i THEN pend[j] ELSE pend[j + 1]]

\* mutant of MoveSucceeds: the move is made without overwrite
MoveSucceedsNoOverwrite(srcIno, destIno, fault) == srcIno # NoIno /\ destIno = NoIno /\ ~fault

\* line 64: fs.move with {overwrite: true} succeeds when the source exists and
\* no I/O fault occurs, whatever is at the destination
MoveSucceeds(srcIno, destIno, fault) == srcIno # NoIno /\ ~fault

\* CacheFS._addFileToCache: fs.move(sourcePath, filePath, {overwrite: true})
\* completes; it creates the shard directory and renames the file over the
\* destination, or fails (source gone, or an I/O fault) and the error is logged
MoveFile(i, fault) ==
    /\ i \in 1..Len(pending)
    /\ LET m == pending[i]
           src == TempPath(m.file)
           filePath == _calcFilepath(m.type, Guid, Hash)
           ok == MoveSucceeds(names[src], names[filePath], fault)
       IN  /\ IF ok
              THEN /\ names' = [names EXCEPT ![filePath] = names[src], ![src] = NoIno]
                   /\ dirs' = dirs \cup {filePath.dir}
              ELSE UNCHANGED <<names, dirs>>
           /\ moveLog' = Append(moveLog, [txn |-> m.txn, file |-> m.file,
                                           type |-> m.type, ok |-> ok])
           /\ pending' = PendingAfter(pending, i, ok)
    /\ UNCHANGED <<inodes, created, _streams, streamKeys, sobj, _files, pc, who, snap,
                   idx, result, ncalls, nextUuid, gwsResult>>
    /\ UNCHANGED readVars /\ UNCHANGED cleanVars

\* ---------------------------------------------------------------- readers

\* CacheFS.getFileInfo(type, guid, hash)
GetFileInfo(type) ==
    /\ LET ino == names[_calcFilepath(type, Guid, Hash)] IN
         obs' = IF ino = NoIno
                THEN [NoObs EXCEPT !.op = "stat"]
                ELSE [NoObs EXCEPT !.op = "stat", !.found = TRUE, !.ino = ino,
                                   !.size = Len(inodes[ino].content)]
    /\ obs' # obs
    /\ UNCHANGED rd
    /\ UNCHANGED fsVars /\ UNCHANGED txnVars /\ UNCHANGED cleanVars

\* CacheFS.getFileStream(type, guid, hash): the stream is resolved once open
GetFileStream(type) ==
    /\ rd = NoIno
    /\ LET ino == names[_calcFilepath(type, Guid, Hash)] IN
         IF ino = NoIno
         THEN /\ obs' = [NoObs EXCEPT !.op = "read"]
              /\ obs' # obs
              /\ UNCHANGED rd
         ELSE /\ rd' = ino
              /\ UNCHANGED obs
    /\ UNCHANGED fsVars /\ UNCHANGED txnVars /\ UNCHANGED cleanVars

\* the caller reads the opened stream to its end
ReadToEnd ==
    /\ rd # NoIno
    /\ obs' = [NoObs EXCEPT !.op = "read", !.found = TRUE, !.ino = rd,
                            !.size = Len(inodes[rd].content),
                            !.data = inodes[rd].content]
    /\ rd' = NoIno
    /\ UNCHANGED fsVars /\ UNCHANGED txnVars /\ UNCHANGED cleanVars

\* ----------------------------------------------------------------- cleanup

\* what klaw(self._cachePath) can list, in listing order: the root, the files
\* directly under it (the temporary files), the shard directory and its files
DirPath(d) == [dir |-> d, name |-> [stem |-> <<>>, ext |-> ""]]
KindSeq == <<"a", "i", "r">>
WalkList ==
    <<[path |-> DirPath(<<>>), isDir |-> TRUE]>>
    \o [u \in 1..MaxUuid |-> [path |-> TempPath(u), isDir |-> FALSE]]
    \o <<[path |-> DirPath(ShardDir), isDir |-> TRUE]>>
    \o [i \in 1..Len(KindSeq) |-> [path |-> _calcFilepath(KindSeq[i], Guid, Hash), isDir |-> FALSE]]

\* the entry exists on disk
Listed(e) ==
    IF e.isDir THEN e.path.dir = <<>> \/ e.path.dir \in dirs
    ELSE names[e.path] # NoIno

\* entries the walk has still to emit after position pos
Ahead(pos) == {j \in (pos + 1)..Len(WalkList) : Listed(WalkList[j])}

Min(S) == CHOOSE x \in S : \A y \in S : x <= y

\* line 120: progressData()
progressData(c) ==
    [cacheCount |-> Len(c.allItems), cacheSize |-> c.cacheSize,
     deleteCount |-> Len(c.deleteItems), deleteSize |-> c.deleteSize]

Event(name, c, path) == [ev |-> name, data |-> progressData(c), path |-> path]

\* mutant of Expired: the comparison is <=
ExpiredOrEqual(atime, minFileAccessTime) == atime <= minFileAccessTime

\* line 130: item.stats.atime < minFileAccessTime
Expired(atime, minFileAccessTime) == atime < minFileAccessTime

\* mutant of InvalidExpire: only the validity is tested, a zero duration passes
InvalidExpireNotZero(expireTimeSpan) == expireTimeSpan < 0

\* line 108: the expireTimeSpan option is refused (-1 stands for a value that
\* moment.duration() finds invalid)
InvalidExpire(expireTimeSpan) == expireTimeSpan < 0 \/ expireTimeSpan = 0

\* line 143: the comparator handed to sort; true and false become 1 and 0
comparefn(a, b) == IF a.atime > b.atime THEN 1 ELSE 0

\* Array.prototype.sort of V8 before 7.0 on a short array: insertion sort,
\* which shifts an element while comparefn(tmp, element) > 0
RECURSIVE InsertInto(_, _, _)
InsertInto(a, element, j) ==
    IF j >= 1 /\ comparefn(a[j], element) > 0
    THEN InsertInto(a, element, j - 1)
    ELSE SubSeq(a, 1, j) \o <<element>> \o SubSeq(a, j + 1, Len(a))

RECURSIVE InsertionSortFrom(_, _)
InsertionSortFrom(a, i) ==
    IF i > Len(a) THEN a
    ELSE InsertionSortFrom(
             InsertInto(SubSeq(a, 1, i - 1), a[i], i - 1) \o SubSeq(a, i + 1, Len(a)),
             i + 1)

InsertionSort(a) == InsertionSortFrom(a, 2)

\* Array.prototype.sort of V8 from 7.0 on (TimSort) on a short array: the
\* leading run is found, reversed when descending, and the rest is placed by
\* binary insertion; both test comparefn(...) < 0
RECURSIVE RunLength(_, _, _)
RunLength(a, k, isDescending) ==
    IF k > Len(a) THEN Len(a)
    ELSE LET order == comparefn(a[k], a[k - 1]) IN
         IF isDescending
         THEN IF order >= 0 THEN k - 1 ELSE RunLength(a, k + 1, isDescending)
         ELSE IF order < 0 THEN k - 1 ELSE RunLength(a, k + 1, isDescending)

Reverse(a) == [i \in 1..Len(a) |-> a[Len(a) + 1 - i]]

RECURSIVE BinarySearch(_, _, _, _)
BinarySearch(a, pivot, left, right) ==
    IF left >= right THEN left
    ELSE LET mid == left + ((right - left) \div 2) IN
         IF comparefn(pivot, a[mid]) < 0
         THEN BinarySearch(a, pivot, left, mid)
         ELSE BinarySearch(a, pivot, mid + 1, right)

RECURSIVE BinaryInsertionSort(_, _)
BinaryInsertionSort(a, start) ==
    IF start > Len(a) THEN a
    ELSE LET left == BinarySearch(a, a[start], 1, start) IN
         BinaryInsertionSort(
             SubSeq(a, 1, left - 1) \o <<a[start]>> \o SubSeq(a, left, start - 1)
                 \o SubSeq(a, start + 1, Len(a)),
             start + 1)

TimSort(a) ==
    IF Len(a) < 2 THEN a
    ELSE LET isDescending == comparefn(a[2], a[1]) < 0
             n == RunLength(a, 3, isDescending)
             run == IF isDescending THEN Reverse(SubSeq(a, 1, n)) ELSE SubSeq(a, 1, n)
         IN  BinaryInsertionSort(run \o SubSeq(a, n + 1, Len(a)), n + 1)

SortEngines == {"insertion", "timsort"}

\* line 143: allItems.sort((a, b) => a.stats.atime > b.stats.atime). The
\* comparator is not a consistent comparison function, so the order is the
\* engine's: either of the two the build may run on
SortItems(a, eng) == IF eng = "insertion" THEN InsertionSort(a) ELSE TimSort(a)

\* mutant of SizeLoop: the loop breaks after its first item, over budget or not
SizeLoopOnce(c, ev, i, maxCacheSize) ==
    IF i > Len(c.allItems) THEN [c |-> c, ev |-> ev]
    ELSE [c |-> [c EXCEPT !.deleteSize = @ + c.allItems[i].size,
                          !.deleteItems = Append(@, c.allItems[i].path)],
          ev |-> Append(ev, Event("cleanup_search_progress", c, c.allItems[i].path))]

\* lines 144-149: the for loop of the size pass over items i.. of the sorted list
RECURSIVE SizeLoop(_, _, _, _)
SizeLoop(c, ev, i, maxCacheSize) ==
    IF i > Len(c.allItems) THEN [c |-> c, ev |-> ev]
    ELSE LET item == c.allItems[i]
             c1 == [c EXCEPT !.deleteSize = @ + item.size,
                             !.deleteItems = Append(@, item.path)]
             ev1 == Append(ev, Event("cleanup_search_progress", c, item.path))
         IN  IF c1.cacheSize - c1.deleteSize <= maxCacheSize
             THEN [c |-> c1, ev |-> ev1]
             ELSE SizeLoop(c1, ev1, i + 1, maxCacheSize)

\* line 142: the size pass runs
OverBudget(c, maxCacheSize) ==
    maxCacheSize > 0 /\ c.cacheSize - c.deleteSize > maxCacheSize

\* lines 142-152: the search part of finalize
Search(c, ev, maxCacheSize, eng) ==
    LET r == IF OverBudget(c, maxCacheSize)
             THEN SizeLoop([c EXCEPT !.allItems = SortItems(@, eng)], ev, 1, maxCacheSize)
             ELSE [c |-> c, ev |-> ev]
    IN  [c |-> r.c, ev |-> Append(r.ev, Event("cleanup_search_finish", r.c, DirPath(<<>>)))]

\* mutant of ShouldDelete: the dryRun flag is ignored
ShouldDeleteAlways(dryRun) == TRUE

\* line 154: the delete loop is entered
ShouldDelete(dryRun) == ~dryRun

PassEntry(c, outcome, search, finish, ev, namesEnd) ==
    [dryRun |-> c.dryRun, outcome |-> outcome, search |-> search, finish |-> finish,
     names0 |-> c.names0, namesEnd |-> namesEnd, marked |-> c.deleteItems,
     deleted |-> c.deleted, events |-> ev]

\* CacheFS.cleanup(dryRun) up to the start of the walk
CleanupStart(dryRun) ==
    /\ cl.phase = "idle"
    /\ passes < MaxPasses
    /\ passes' = passes + 1
    /\ IF InvalidExpire(options.expireTimeSpan)
       THEN /\ cl' = IdleCl
            /\ events' = <<>>
            /\ passLog' = Append(passLog,
                                 PassEntry([IdleCl EXCEPT !.dryRun = dryRun, !.names0 = names],
                                           "Invalid expireTimeSpan option", NoTotals,
                                           NoTotals, <<>>, names))
       ELSE /\ cl' = [IdleCl EXCEPT !.phase = "walk", !.dryRun = dryRun,
                                    !.min = Now - options.expireTimeSpan,
                                    !.names0 = names]
            /\ events' = <<>>
            /\ UNCHANGED passLog
    /\ UNCHANGED <<options, engine>>
    /\ UNCHANGED fsVars /\ UNCHANGED txnVars /\ UNCHANGED readVars

\* klaw emits the next entry and filterTransform handles it (lines 126-138);
\* the 'data' handler of line 168 runs inside this.push(item)
WalkItem ==
    /\ cl.phase = "walk"
    /\ Ahead(cl.pos) # {}
    /\ LET j == Min(Ahead(cl.pos))
           e == WalkList[j]
       IN  IF e.isDir
           THEN /\ cl' = [cl EXCEPT !.pos = j]
                /\ UNCHANGED events
           ELSE LET ino == inodes[names[e.path]]
                    item == [path |-> e.path, size |-> Len(ino.content), atime |-> ino.atime]
                    c1 == [cl EXCEPT !.pos = j,
                                     !.allItems = Append(@, item),
                                     !.cacheSize = @ + item.size]
                    c2 == IF Expired(item.atime, cl.min)
                          THEN [c1 EXCEPT !.deleteSize = @ + item.size,
                                          !.deleteItems = Append(@, item.path)]
                          ELSE c1
                IN  /\ cl' = c2
                    /\ events' = Append(events, Event("cleanup_search_progress", c2, item.path))
    /\ UNCHANGED <<options, engine, passes, passLog>>
    /\ UNCHANGED fsVars /\ UNCHANGED txnVars /\ UNCHANGED readVars

\* the steps of finalize from delete index i on, up to its next wait: either the
\* unlink of deleteItems[i] is started, or the loop is over and finalize ends
DeleteFrom(c, ev, i, namesEnd) ==
    IF ShouldDelete(c.dryRun) /\ i <= Len(c.deleteItems)
    THEN /\ cl' = [c EXCEPT !.phase = "unlink", !.di = i]
         /\ events' = Append(ev, Event("cleanup_delete_item", c, c.deleteItems[i]))
         /\ UNCHANGED passLog
    ELSE LET ev1 == Append(ev, Event("cleanup_delete_finish", c, DirPath(<<>>))) IN
         /\ cl' = IdleCl
         /\ events' = ev1
         /\ passLog' = Append(passLog,
                              PassEntry(c, "resolved", c.search, progressData(c), ev1,
                                        namesEnd))

\* the walk ends ('end', line 169) and finalize runs up to its first wait
WalkEnd ==
    /\ cl.phase = "walk"
    /\ Ahead(cl.pos) = {}
    /\ LET r == Search(cl, events, options.maxCacheSize, engine)
           c == [r.c EXCEPT !.search = progressData(r.c)]
       IN  DeleteFrom(c, r.ev, 1, names)
    /\ UNCHANGED <<options, engine, passes>>
    /\ UNCHANGED fsVars /\ UNCHANGED txnVars /\ UNCHANGED readVars

\* line 157: fs.unlink(item) completes; a missing file makes it throw, which
\* ends finalize and rejects the promise of cleanup
UnlinkDone ==
    /\ cl.phase = "unlink"
    /\ LET item == cl.deleteItems[cl.di] IN
       IF names[item] = NoIno
       THEN /\ cl' = IdleCl
            /\ passLog' = Append(passLog, PassEntry(cl, "rejected", cl.search, NoTotals, events,
                                                  names))
            /\ UNCHANGED <<events, names>>
       ELSE /\ names' = [names EXCEPT ![item] = NoIno]
            /\ DeleteFrom([cl EXCEPT !.deleted = @ \cup {item}], events, cl.di + 1,
                       [names EXCEPT ![item] = NoIno])
    /\ UNCHANGED <<inodes, dirs, options, engine, passes>>
    /\ UNCHANGED txnVars /\ UNCHANGED readVars

\* ------------------------------------------------------------------- init

Zeros(n) == [i \in 1..n |-> 0]

InitTxnVars ==
    /\ created = [t \in Txns |-> FALSE]
    /\ _streams = [t \in Txns |-> [k \in Kinds |-> 0]]
    /\ streamKeys = [t \in Txns |-> <<>>]
    /\ sobj = [u \in Uuids |-> NoStream]
    /\ _files = [t \in Txns |-> <<>>]
    /\ pc = [t \in Txns |-> "idle"]
    /\ who = [t \in Txns |-> "finalize"]
    /\ snap = [t \in Txns |-> <<>>]
    /\ idx = [t \in Txns |-> 1]
    /\ result = [t \in Txns |-> "none"]
    /\ ncalls = [t \in Txns |-> 0]
    /\ nextUuid = 1
    /\ pending = <<>>
    /\ moveLog = <<>>
    /\ gwsResult = "none"
    /\ obs = NoObs
    /\ rd = NoIno

InitCleanVars ==
    /\ cl = IdleCl
    /\ events = <<>>
    /\ passes = 0
    /\ passLog = <<>>

\* Transactions and readers over a store that is empty at first.
Init ==
    /\ names = [p \in Paths |-> NoIno]
    /\ inodes = [i \in Inos |-> [content |-> <<>>, atime |-> 0]]
    /\ dirs = {}
    /\ InitTxnVars
    /\ InitCleanVars
    /\ options = [expireTimeSpan |-> 1, maxCacheSize |-> 0]
    /\ engine = "insertion"

\* the byte the caller writes to stream u: each stream carries its own data,
\* so that two versions of a file can be told apart
DataOf(u) == u

\* Transactions racing on one key, called with well-formed arguments.
Next ==
    \/ \E t \in Txns : CreatePutTransaction(t)
    \/ \E t \in Txns, type \in Kinds, size \in ValidSizes : GetWriteStream(t, type, size)
    \/ \E u \in Uuids : WriteByte(u, DataOf(u))
    \/ \E u \in Uuids : CloseStream(u)
    \/ \E t \in Txns : Finalize(t)
    \/ \E t \in Txns : EndPutTransaction(t)
    \/ \E t \in Txns : ResumeClose(t)
    \/ \E i \in 1..MaxUuid * MaxCalls, fault \in BOOLEAN : MoveFile(i, fault)

Spec == Init /\ [][Next]_vars

\* One transaction called with any arguments, well-formed or not.
NextArgs ==
    \/ CreatePutTransaction(1)
    \/ \E type \in TypeInputs, size \in SizeInputs : GetWriteStream(1, type, size)
    \/ \E u \in Uuids : CloseStream(u)

SpecArgs == Init /\ [][NextArgs]_vars

\* Transactions whose streams are written as declared and which are committed
\* once, with moves that may fail.
NextCommit ==
    \/ \E t \in Txns : CreatePutTransaction(t)
    \/ \E t \in Txns, type \in Kinds : GetWriteStream(t, type, Num(1))
    \/ \E u \in Uuids : sobj[u].bytesWritten < sobj[u].size.v /\ WriteByte(u, DataOf(u))
    \/ \E u \in Uuids : sobj[u].bytesWritten = sobj[u].size.v /\ CloseStream(u)
    \/ \E t \in Txns : result[t] = "none" /\ EndPutTransaction(t)
    \/ \E t \in Txns : ResumeClose(t)
    \/ \E i \in 1..MaxUuid * MaxCalls, fault \in BOOLEAN : MoveFile(i, fault)

SpecCommit == Init /\ [][NextCommit]_vars

\* the store holds a previous version of the "a" file, or does not
InitRead ==
    /\ \E prev \in BOOLEAN :
          /\ names = [p \in Paths |-> IF prev /\ p = _calcFilepath("a", Guid, Hash)
                                       THEN PreIno("a") ELSE NoIno]
          /\ inodes = [i \in Inos |-> IF prev /\ i = PreIno("a")
                                       THEN [content |-> Zeros(1), atime |-> 0]
                                       ELSE [content |-> <<>>, atime |-> 0]]
          /\ dirs = IF prev THEN {ShardDir} ELSE {}
    /\ InitTxnVars
    /\ InitCleanVars
    /\ options = [expireTimeSpan |-> 1, maxCacheSize |-> 0]
    /\ engine = "insertion"

\* Readers of the "a" file racing transactions that write and commit it.
NextRead ==
    \/ \E t \in Txns : CreatePutTransaction(t)
    \/ \E t \in Txns : GetWriteStream(t, "a", Num(1))
    \/ \E u \in Uuids : WriteByte(u, DataOf(u))
    \/ \E u \in Uuids : CloseStream(u)
    \/ \E t \in Txns : result[t] = "none" /\ EndPutTransaction(t)
    \/ \E t \in Txns : ResumeClose(t)
    \/ \E i \in 1..MaxUuid * MaxCalls : MoveFile(i, FALSE)
    \/ GetFileInfo("a")
    \/ GetFileStream("a")
    \/ ReadToEnd

SpecRead == InitRead /\ [][NextRead]_vars

\* a store that holds, for each kind, no file or one of any size and access time
StoreInit ==
    \E present \in SUBSET Kinds :
    \E size \in [Kinds -> 1..MaxFileSize], atime \in [Kinds -> 0..Now] :
        /\ names = [p \in Paths |->
                      IF \E k \in present : p = _calcFilepath(k, Guid, Hash)
                      THEN PreIno(CHOOSE k \in present : p = _calcFilepath(k, Guid, Hash))
                      ELSE NoIno]
        /\ inodes = [i \in Inos |->
                       IF \E k \in present : i = PreIno(k)
                       THEN LET k == CHOOSE k \in present : i = PreIno(k)
                            IN  [content |-> Zeros(size[k]), atime |-> atime[k]]
                       ELSE [content |-> <<>>, atime |-> 0]]
        /\ dirs = {ShardDir}

\* Cleanup passes, one after the other, over any store and any options.
InitCleanup ==
    /\ StoreInit
    /\ InitTxnVars
    /\ InitCleanVars
    /\ options \in [expireTimeSpan : -1..Now, maxCacheSize : 0..MaxCacheOpt]
    /\ engine \in SortEngines

NextCleanup ==
    \/ \E dryRun \in BOOLEAN : CleanupStart(dryRun)
    \/ WalkItem
    \/ WalkEnd
    \/ UnlinkDone

SpecCleanup == InitCleanup /\ [][NextCleanup]_vars

\* A transaction that opens and writes streams, never committed, while one
\* cleanup pass with dryRun = false runs over the same cache directory.
\* The store holds an "a" file of any access time, or no file.
InitMidWrite ==
    /\ \E prev \in BOOLEAN, atime \in 0..Now :
          /\ names = [p \in Paths |-> IF prev /\ p = _calcFilepath("a", Guid, Hash)
                                       THEN PreIno("a") ELSE NoIno]
          /\ inodes = [i \in Inos |-> IF prev /\ i = PreIno("a")
                                       THEN [content |-> Zeros(1), atime |-> atime]
                                       ELSE [content |-> <<>>, atime |-> 0]]
          /\ dirs = {ShardDir}
    /\ InitTxnVars
    /\ InitCleanVars
    /\ options \in [expireTimeSpan : 1..Now, maxCacheSize : 0..MaxCacheOpt]
    /\ engine \in SortEngines

NextMidWrite ==
    \/ CreatePutTransaction(1)
    \/ \E type \in Kinds, size \in ValidSizes : GetWriteStream(1, type, size)
    \/ \E u \in Uuids : WriteByte(u, DataOf(u))
    \/ passes = 0 /\ CleanupStart(FALSE)
    \/ WalkItem
    \/ WalkEnd
    \/ UnlinkDone

SpecMidWrite == InitMidWrite /\ [][NextMidWrite]_vars

\* One transaction through any sequence of getWriteStream, writes and finalize
\* calls, with streams of declared size 1 that get zero, one or two bytes.
NextFinalize ==
    \/ CreatePutTransaction(1)
    \/ \E type \in Kinds : GetWriteStream(1, type, Num(1))
    \/ \E u \in Uuids : sobj[u].bytesWritten <= sobj[u].size.v /\ WriteByte(u, DataOf(u))
    \/ \E u \in Uuids : CloseStream(u)
    \/ Finalize(1)
    \/ ResumeClose(1)

SpecFinalize == Init /\ [][NextFinalize]_vars

\* One transaction through any sequence of getWriteStream, writes and commit
\* calls, with streams of declared size 1 that get zero, one or two bytes.
\* The moves complete in the order they were started.
NextTxn ==
    \/ CreatePutTransaction(1)
    \/ \E type \in Kinds : GetWriteStream(1, type, Num(1))
    \/ \E u \in Uuids : sobj[u].bytesWritten <= sobj[u].size.v /\ WriteByte(u, DataOf(u))
    \/ \E u \in Uuids : CloseStream(u)
    \/ EndPutTransaction(1)
    \/ ResumeClose(1)
    \/ MoveFile(1, FALSE)

SpecTxn == Init /\ [][NextTxn]_vars

\* -------------------------------------------------- claims on transactions

Range(f) == {f[i] : i \in DOMAIN f}

\* the bytes written to stream u so far
Written(u) == [i \in 1..sobj[u].bytesWritten |-> DataOf(u)]

CanonOf(type) == _calcFilepath(type, Guid, Hash)

\* the streams opened on transaction t
StreamsOf(t) == {u \in Uuids : sobj[u].owner = t}

\* C1 (as claimed): once commit has returned for a transaction that wrote
\* exactly the declared bytes B to each of its streams, with no other
\* transaction, no repeated call, no duplicate kind, no stream opened after the
\* commit and no failed move, every kind it wrote is at its canonical path with
\* size |B| and content B.
C1_RoundTripAfterCommit ==
    \A t \in Txns :
        ( /\ result[t] = "committed" /\ pc[t] = "idle" /\ ncalls[t] = 1
          /\ \A t2 \in Txns \ {t} : ~created[t2]
          /\ Cardinality(StreamsOf(t)) = Len(streamKeys[t])
          /\ StreamsOf(t) = Range(snap[t])
          /\ \A n \in DOMAIN moveLog : moveLog[n].ok ) =>
            \A u \in StreamsOf(t) :
                LET ino == names[CanonOf(sobj[u].type)] IN
                /\ ino # NoIno
                /\ Len(inodes[ino].content) = sobj[u].size.v
                /\ inodes[ino].content = Written(u)

\* C3 (as claimed): when the first finalize of a transaction has met a stream
\* whose bytesWritten differs from its declared size, it has failed with
\* SizeMismatch and files holds no entry.
C3_MismatchLeavesFilesEmpty ==
    \A t \in Txns :
        ( /\ pc[t] = "idle" /\ ncalls[t] = 1
          /\ \E i \in DOMAIN snap[t] :
                /\ sobj[snap[t][i]].closed
                /\ sobj[snap[t][i]].bytesWritten # sobj[snap[t][i]].size.v ) =>
            /\ result[t] = "SizeMismatch"
            /\ _files[t] = <<>>

\* C4 (as claimed): a second getWriteStream for a kind that already has a
\* stream on the transaction is refused, so a transaction has at most one
\* stream and one temporary file per kind.
C4_OneStreamPerKind ==
    \A t \in Txns : \A k \in Kinds :
        Cardinality({u \in StreamsOf(t) : sobj[u].type = k}) <= 1

\* the moves of transaction t have all completed after its commit returned
Settled(t) ==
    /\ result[t] = "committed" /\ pc[t] = "idle"
    /\ \A i \in DOMAIN pending : pending[i].txn # t

\* the file of inode ino is a complete version: one that was in the store
\* before the run, or one whose stream is closed with all its declared bytes
Complete(ino) ==
    \/ ino \in {PreIno(k) : k \in Kinds}
    \/ /\ ino \in Uuids
       /\ sobj[ino].closed
       /\ Len(inodes[ino].content) = sobj[ino].size.v

\* C2: what a reader gets from the canonical path is a complete version, in
\* size and in content; the file at a canonical path is always complete; a
\* canonical path changes only when a move of commit puts a verified file
\* there, and the content of a published file never changes.
C2_AtomicPublication ==
    /\ [](/\ obs.found =>
               /\ Complete(obs.ino)
               /\ obs.size = Len(inodes[obs.ino].content)
               /\ obs.op = "read" => obs.data = inodes[obs.ino].content
          /\ \A p \in CanonPaths : names[p] # NoIno => Complete(names[p]))
    /\ [][\A p \in CanonPaths :
            /\ names[p] # NoIno => inodes'[names[p]] = inodes[names[p]]
            /\ names'[p] # names[p] =>
                  \E i \in DOMAIN pending :
                     /\ CanonOf(pending[i].type) = p
                     /\ names'[p] = pending[i].file
                     /\ names[TempPath(pending[i].file)] = pending[i].file
                     /\ names'[TempPath(pending[i].file)] = NoIno]_vars

\* C2 witness: a reader has read a committed version to its end while another
\* stream of the same kind is open and partly written.
C2_Witness ==
    /\ obs.op = "read" /\ obs.found /\ obs.ino \in Uuids
    /\ \E u \in Uuids :
          /\ u # obs.ino /\ sobj[u].file = u /\ sobj[u].type = sobj[obs.ino].type
          /\ ~sobj[u].closed /\ sobj[u].bytesWritten > 0

\* the call has one of the faults C5 names: a size that is not of type number,
\* or is zero or negative, or a kind that is none of the three
BadArguments(type, size) ==
    \/ size.t # "number"
    \/ ~size.nan /\ size.v <= 0
    \/ type \notin Kinds

InvalidArgument == {"Invalid size for write stream", "Unrecognized type"}

C6_PartialCommitIndependence ==
    \A t \in Txns :
        Settled(t) =>
            \A i \in DOMAIN _files[t] :
                LET f == _files[t][i] IN
                /\ \E n \in DOMAIN moveLog : moveLog[n].txn = t /\ moveLog[n].file = f.file
                /\ \A n \in DOMAIN moveLog :
                     (moveLog[n].txn = t /\ moveLog[n].file = f.file /\ moveLog[n].ok) =>
                        \/ /\ names[CanonOf(f.type)] = f.file
                           /\ inodes[f.file].content = Written(f.file)
                           /\ Len(inodes[f.file].content) = f.size.v
                        \/ \E m \in DOMAIN moveLog :
                              m > n /\ moveLog[m].ok /\ moveLog[m].type = f.type

\* C6 witness: a commit whose move of one kind failed on an existing source
\* while the file of another kind is in place.
C6_Witness ==
    \E t \in Txns :
        /\ Settled(t)
        /\ \E n, m \in DOMAIN moveLog :
              /\ moveLog[n].txn = t /\ ~moveLog[n].ok
              /\ names[TempPath(moveLog[n].file)] # NoIno
              /\ moveLog[m].txn = t /\ moveLog[m].ok
              /\ moveLog[m].type # moveLog[n].type
              /\ names[CanonOf(moveLog[m].type)] = moveLog[m].file

\* ------------------------------------------------------- claims on cleanup

\* the files in the store when pass p started, their access times and sizes
PassFiles(p) == {f \in Paths : p.names0[f] # NoIno}
AtimeIn(p, f) == inodes[p.names0[f]].atime
SizeIn(p, f) == Len(inodes[p.names0[f]].content)

RECURSIVE SumSizes(_, _)
SumSizes(p, S) ==
    IF S = {} THEN 0
    ELSE LET f == CHOOSE f \in S : TRUE IN SizeIn(p, f) + SumSizes(p, S \ {f})

\* a pass that got past the check of expireTimeSpan and has ended
Ran(p) == p.outcome \in {"resolved", "rejected"}

\* deleteCount and deleteSize of the events of the given name that pass p emitted
Reported(p, name) ==
    {<<p.events[i].data.deleteCount, p.events[i].data.deleteSize>> :
        i \in {j \in DOMAIN p.events : p.events[j].ev = name}}

WalkPos(f) == CHOOSE j \in DOMAIN WalkList : WalkList[j].path = f

\* C7: with a valid non-zero expireAfter, size-based eviction disabled and
\* dryRun = false, a cleanup pass ends normally having deleted every file whose
\* last-access time is older than now - expireAfter, and no other file.
C7_ExpiryDeletesExactlyExpired ==
    \A n \in DOMAIN passLog :
        LET p == passLog[n] IN
        (~p.dryRun /\ options.expireTimeSpan > 0 /\ options.maxCacheSize = 0) =>
            /\ p.outcome = "resolved"
            /\ \A f \in PassFiles(p) :
                 (p.namesEnd[f] = NoIno) <=> (AtimeIn(p, f) < Now - options.expireTimeSpan)

\* C7 witness: such a pass has ended, having deleted one file and kept another.
C7_Witness ==
    \E n \in DOMAIN passLog :
        LET p == passLog[n] IN
        /\ ~p.dryRun /\ options.expireTimeSpan > 0 /\ options.maxCacheSize = 0
        /\ p.outcome = "resolved"
        /\ \E f, g \in PassFiles(p) : p.namesEnd[f] = NoIno /\ p.namesEnd[g] # NoIno

\* C8: a dry-run pass deletes no file, emits no deleting-item event and leaves
\* the store as it was; its search-finished and deletion-finished events carry
\* the deleteCount and deleteSize that the events of a dryRun = false pass over
\* the same store carry.
C8_DryRunFaithful ==
    \A n \in DOMAIN passLog :
        LET p == passLog[n] IN
        (p.dryRun /\ options.expireTimeSpan > 0) =>
            /\ p.outcome = "resolved"
            /\ p.namesEnd = p.names0
            /\ p.deleted = {}
            /\ Reported(p, "cleanup_delete_item") = {}
            /\ Cardinality(Reported(p, "cleanup_search_finish")) = 1
            /\ Reported(p, "cleanup_delete_finish") = Reported(p, "cleanup_search_finish")
            /\ \A m \in DOMAIN passLog :
                 LET q == passLog[m] IN
                 (~q.dryRun /\ q.names0 = p.names0) =>
                    /\ Reported(q, "cleanup_search_finish") = Reported(p, "cleanup_search_finish")
                    /\ Reported(q, "cleanup_delete_finish") \subseteq Reported(p, "cleanup_delete_finish")

\* C8 witness: a dry-run pass that reported a file to delete, and a
\* dryRun = false pass over the same store that deleted it.
C8_Witness ==
    \E n, m \in DOMAIN passLog :
        /\ passLog[n].dryRun /\ ~passLog[m].dryRun
        /\ passLog[n].outcome = "resolved" /\ passLog[m].outcome = "resolved"
        /\ passLog[n].names0 = passLog[m].names0
        /\ passLog[m].deleted # {}
        /\ \E r \in Reported(passLog[n], "cleanup_delete_finish") : r[1] > 0

\* C9 (as claimed): with maxTotalSize > 0, at the end of the search phase the
\* files not marked for deletion total at most maxTotalSize or every file is
\* marked, and after a dryRun = false pass the files left on disk total at most
\* maxTotalSize.
C9_BudgetMet ==
    \A n \in DOMAIN passLog :
        LET p == passLog[n]
            unmarked == PassFiles(p) \ Range(p.marked)
            left == {f \in PassFiles(p) : p.namesEnd[f] # NoIno}
        IN  (Ran(p) /\ options.maxCacheSize > 0) =>
               /\ unmarked = {} \/ SumSizes(p, unmarked) <= options.maxCacheSize
               /\ ~p.dryRun => SumSizes(p, left) <= options.maxCacheSize

\* C10 (as claimed): the size pass marks files in ascending order of last-access
\* time: no retained file is marked while a retained file that is strictly
\* older, or as old and earlier in the walk, stays unmarked.
C10_StrictLRU ==
    \A n \in DOMAIN passLog :
        LET p == passLog[n]
            retained == {f \in PassFiles(p) : ~(AtimeIn(p, f) < Now - options.expireTimeSpan)}
            marked == Range(p.marked)
        IN  Ran(p) =>
               \A f, g \in retained :
                  (f \in marked /\ g \notin marked) =>
                     \/ AtimeIn(p, f) < AtimeIn(p, g)
                     \/ AtimeIn(p, f) = AtimeIn(p, g) /\ WalkPos(f) < WalkPos(g)

\* C10 under the insertion sort of V8 before 7.0 only
C10_InsertionOnly == engine = "insertion" => C10_StrictLRU

\* C9 without double counting in view: no expired file in the store
C9_NoExpired ==
    (\A n \in DOMAIN passLog : \A f \in PassFiles(passLog[n]) :
         ~(AtimeIn(passLog[n], f) < Now - options.expireTimeSpan)) /\ engine = "insertion"
    => C9_BudgetMet

C12_MidWriteNotDeleted ==
    \A u \in Uuids :
        ( /\ sobj[u].file = u /\ ~sobj[u].closed
          /\ result[sobj[u].owner] = "none" /\ pc[sobj[u].owner] = "idle" ) =>
            /\ TempPath(u) \notin Range(cl.deleteItems)
            /\ \A n \in DOMAIN passLog : TempPath(u) \notin Range(passLog[n].marked)
            /\ names[TempPath(u)] = u

\* the events of the given name that pass p emitted
EventsOf(p, name) == {i \in DOMAIN p.events : p.events[i].ev = name}

\* C13 (as claimed): in a pass with dryRun = false, also when an unlink has
\* failed, the delete of every entry of the deletion set is attempted (it has
\* its deleting-item event) and the deletion-finished event is emitted.
C13_FailedDeleteDoesNotAbort ==
    \A n \in DOMAIN passLog :
        LET p == passLog[n] IN
        (Ran(p) /\ ~p.dryRun) =>
            /\ Cardinality(EventsOf(p, "cleanup_delete_item")) = Len(p.marked)
            /\ \A f \in Range(p.marked) :
                  \E i \in EventsOf(p, "cleanup_delete_item") : p.events[i].path = f
            /\ EventsOf(p, "cleanup_delete_finish") # {}

\* the expireTimeSpan option is one C14 names: not a valid duration (-1), or
\* zero, which is also what moment.duration() makes of a missing option
BadExpire == options.expireTimeSpan \in {0 - 1, 0}

\* C14: with such an option every cleanup call, dry run or not, fails with the
\* invalid-option error before the walk starts: no file is visited, no event is
\* emitted, nothing is marked and no file is deleted.
C14_InvalidExpiryFailsFast ==
    BadExpire =>
        /\ cl = IdleCl
        /\ events = <<>>
        /\ \A n \in DOMAIN passLog :
              LET p == passLog[n] IN
              /\ p.outcome = "Invalid expireTimeSpan option"
              /\ p.events = <<>>
              /\ p.marked = <<>>
              /\ p.deleted = {}
              /\ p.namesEnd = p.names0
              /\ p.names0 = names

\* C14 witness: over a store that holds a file last read at time 0, a dry-run
\* call and a dryRun = false call have both been refused.
C14_Witness ==
    /\ BadExpire
    /\ \E f \in CanonPaths : names[f] # NoIno /\ inodes[names[f]].atime = 0
    /\ \E n, m \in DOMAIN passLog :
          /\ passLog[n].dryRun /\ ~passLog[m].dryRun
          /\ passLog[n].outcome = "Invalid expireTimeSpan option"
          /\ passLog[m].outcome = "Invalid expireTimeSpan option"

MaxOf(S) == CHOOSE x \in S : \A y \in S : y <= x

\* the transactions that have committed a file of kind k and whose moves have
\* all completed
Committers(k) ==
    {t \in Txns : Settled(t) /\ \E i \in DOMAIN _files[t] : _files[t][i].type = k}

\* C15: when two or more transactions have committed a file of the same kind
\* for the same key and all moves have completed, every one of the moves has
\* succeeded and the canonical path holds the file of the move that completed
\* last, whole: the bytes its transaction wrote, of the declared size; any
\* file that was there before is replaced.
C15_LastWriterWins ==
    \A k \in Kinds :
        LET moves == {n \in DOMAIN moveLog : moveLog[n].type = k} IN
        (Cardinality(Committers(k)) >= 2 /\ pending = <<>>) =>
            /\ Cardinality(moves) >= 2
            /\ \A n \in moves : moveLog[n].ok
            /\ LET u == moveLog[MaxOf(moves)].file IN
               /\ moveLog[MaxOf(moves)].txn \in Committers(k)
               /\ names[CanonOf(k)] = u
               /\ sobj[u].closed
               /\ inodes[u].content = Written(u)
               /\ Len(inodes[u].content) = sobj[u].size.v

\* C15 witness: over a store that held an "a" file, two transactions have
\* committed an "a" file, both moves are done, and the canonical path holds the
\* file moved last, not the one moved first.
C15_Witness ==
    /\ inodes[PreIno("a")].content # <<>>
    /\ Cardinality(Committers("a")) = 2 /\ pending = <<>>
    /\ Len(moveLog) = 2
    /\ moveLog[1].txn # moveLog[2].txn
    /\ names[CanonOf("a")] = moveLog[2].file
    /\ names[CanonOf("a")] # moveLog[1].file

\* C16 (as claimed): the size pass marks no file the age pass has marked: the
\* deletion set of a pass holds each path once, the deleteCount of its
\* search-finished event is the number of distinct marked files and its
\* deleteSize the sum of their sizes, and in every event of the pass
\* deleteCount <= cacheCount and deleteSize <= cacheSize.
C16_SizePassRetainedOnly ==
    \A n \in DOMAIN passLog :
        LET p == passLog[n] IN
        Ran(p) =>
            /\ Cardinality(Range(p.marked)) = Len(p.marked)
            /\ p.search.deleteCount = Cardinality(Range(p.marked))
            /\ p.search.deleteSize = SumSizes(p, Range(p.marked))
            /\ \A i \in DOMAIN p.events :
                  /\ p.events[i].data.deleteCount <= p.events[i].data.cacheCount
                  /\ p.events[i].data.deleteSize <= p.events[i].data.cacheSize

\* the entry that files holds for a verified stream
FileEntry(u) == [file |-> sobj[u].file, type |-> sobj[u].type, size |-> sobj[u].size]

EventOrder(p) ==
    LET progress == EventsOf(p, "cleanup_search_progress")
        found == EventsOf(p, "cleanup_search_finish")
        item == EventsOf(p, "cleanup_delete_item")
        finish == EventsOf(p, "cleanup_delete_finish")
    IN  /\ Cardinality(found) = 1
        /\ \A i \in progress, j \in found : i < j
        /\ \A i \in item, j \in found : j < i
        /\ \A i \in item : p.events[i].path \in p.deleted
        /\ Cardinality(item) = IF p.dryRun THEN 0 ELSE Len(p.marked)
        /\ finish = {Len(p.events)}
        /\ \A i \in finish, j \in found : p.events[i].data = p.events[j].data

\* C18 (as claimed): in every cleanup pass that started its walk, the
\* search-progress events come before the one search-finished event, every
\* deleting-item event comes after it and is followed by the unlink of its
\* path, and one deletion-finished event ends the pass, with the totals of
\* search-finished.
C18_EventOrder == \A n \in DOMAIN passLog : Ran(passLog[n]) => EventOrder(passLog[n])

\* C18 for the passes that resolve only
C18_ResolvedOnly ==
    \A n \in DOMAIN passLog : passLog[n].outcome = "resolved" => EventOrder(passLog[n])

\* stream u is closed with a byte count other than its declared size
Mismatched(u) == sobj[u].closed /\ sobj[u].bytesWritten # sobj[u].size.v

C20_NoDuplicateFiles ==
    \A t \in Txns :
        /\ \A k \in Kinds :
              Cardinality({i \in DOMAIN _files[t] : _files[t][i].type = k}) <= 1
        /\ \A u \in Uuids :
              Cardinality({i \in DOMAIN pending : pending[i].file = u})
                + Cardinality({n \in DOMAIN moveLog : moveLog[n].file = u}) <= 1

====
